---------------------------- MODULE Spec2Model ----------------------------
(***************************************************************************)
(* A model of the OpenRouter generation client (src/core/OpenRouterClient), *)
(* of the agents and their manager (src/core/Agent) and of the model       *)
(* listing (src/core/OpenRouterAPI) of bramato/openrouter-agents.          *)
(*                                                                         *)
(* JavaScript values.  An optional value (a property that may be           *)
(* undefined) is None or Some(v).  Strings are TLA+ strings, so that       *)
(* prefix and substring tests are computed on the identifiers themselves.  *)
(* Temperatures are in tenths (0.7 is 7).  Objects live in a heap and are  *)
(* referred to by their identity, so that aliasing is visible.             *)
(***************************************************************************)
EXTENDS Integers, Sequences, FiniteSets, TLC

VARIABLES
    heap,       \* the configuration objects ever allocated, by identity
    literals,   \* identities of the objects the caller created itself
    returned,   \* returned[c]: identities of the objects c.getConfig() returned
    clients,    \* the OpenRouterClient instances: their two private fields
    env,        \* process.env
    calls,      \* the generate() calls: idle, in flight, or settled
    writes,     \* how many times the calling program has written to an object
    agents,     \* the Agent instances: agent a owns client a
    exported,   \* identities of the objects reached through Agent.getConfig()
    procs,      \* the Agent.process() calls: process call k uses generate call k
    registry,   \* the AgentManager's map from names to agents
    listing     \* the OpenRouterAPI.fetchAvailableModels() call

\* the state of the agents, the manager and the model listing
agentVars == <<agents, exported, procs, registry, listing>>

vars == <<heap, literals, returned, clients, env, calls, writes,
          agents, exported, procs, registry, listing>>

-----------------------------------------------------------------------------
(* Bounds of the model *)

MaxClients == 2
MaxCalls == 1
MaxObjs == 3
MaxWrites == 1

Clients == 1..MaxClients
CallIds == 1..MaxCalls

-----------------------------------------------------------------------------
(* JavaScript value helpers *)

None == <<>>
Some(v) == <<v>>

\* truthiness of string | undefined: undefined and '' are falsy
TruthyStr(o) == o # None /\ o[1] # ""

\* truthiness of boolean | undefined
TruthyBool(o) == o # None /\ o[1] = TRUE

\* conversion of string | undefined inside a template literal, or String(x)
Str(o) == IF o = None THEN "undefined" ELSE o[1]

\* RegExp /^p/.test(s)
StartsWith(s, p) == Len(s) >= Len(p) /\ SubSeq(s, 1, Len(p)) = p

\* String.prototype.includes
Includes(s, p) ==
    \E i \in 1..(Len(s) - Len(p) + 1) : SubSeq(s, i, i + Len(p) - 1) = p

-----------------------------------------------------------------------------
(* The service profile resolver: OpenRouterClient's private methods *)

ServiceTypes ==
    {"mockGenerator", "codeGenerator", "translation", "documentation", "custom"}

getServiceKey(serviceType) ==
    CASE serviceType = "mockGenerator" -> "MOCK_GENERATOR"
      [] serviceType = "codeGenerator" -> "CODE_GENERATOR"
      [] serviceType = "translation" -> "TRANSLATION"
      [] serviceType = "documentation" -> "DOCUMENTATION"
      [] OTHER -> "DEFAULT"

\* the environment variables the resolver reads
EnvVars == {"OPENROUTER_" \o getServiceKey(t) \o "_MODEL" : t \in ServiceTypes}

\* getModelForService with the global override consulted first
getModelForServiceGlobalFirst(config, serviceType, environment) ==
    LET serviceModel == environment["OPENROUTER_" \o getServiceKey(serviceType) \o "_MODEL"]
    IN  IF TruthyStr(environment["OPENROUTER_DEFAULT_MODEL"])
        THEN environment["OPENROUTER_DEFAULT_MODEL"]
        ELSE IF TruthyStr(serviceModel) THEN serviceModel ELSE config.model

getModelForService(config, serviceType, environment) ==
    LET serviceKey == getServiceKey(serviceType)
        serviceModelKey == "OPENROUTER_" \o serviceKey \o "_MODEL"
        serviceModel == environment[serviceModelKey]
    IN  IF TruthyStr(serviceModel) THEN serviceModel
        ELSE IF TruthyStr(environment["OPENROUTER_DEFAULT_MODEL"])
             THEN environment["OPENROUTER_DEFAULT_MODEL"]
             ELSE config.model

\* supportsJsonMode with patterns that are not anchored at the start
supportsJsonModeUnanchored(modelId) ==
    \/ Includes(modelId, "openai/")
    \/ Includes(modelId, "gpt-")
    \/ Includes(modelId, "nitro")
    \/ Includes(modelId, "anthropic/claude-3")
    \/ Includes(modelId, "google/gemini")

supportsJsonMode(modelId) ==
    \/ StartsWith(modelId, "openai/")
    \/ StartsWith(modelId, "gpt-")
    \/ StartsWith(modelId, "nitro")
    \/ StartsWith(modelId, "anthropic/claude-3")
    \/ StartsWith(modelId, "google/gemini")

\* getSystemPromptForService without the forceJson branch
getSystemPromptForServiceOneString(serviceType, forceJson) ==
    CASE serviceType = "mockGenerator" ->
            "You are a mock data generator. Generate realistic mock data based on the provided schema and examples. Return only valid JSON without markdown formatting or explanations."
      [] OTHER -> "You are an AI assistant. Provide helpful and accurate responses."

getSystemPromptForService(serviceType, forceJson) ==
    CASE serviceType = "mockGenerator" ->
            IF TruthyBool(forceJson)
            THEN "You are a mock data generator. Generate realistic mock data based on the provided schema and examples. You MUST return only valid JSON. Do not include any markdown formatting, code blocks, or explanations. The response must be parseable JSON."
            ELSE "You are a mock data generator. Generate realistic mock data based on the provided schema and examples. Return only valid JSON without markdown formatting or explanations."
      [] serviceType = "codeGenerator" ->
            "You are a code generator assistant. Generate clean, well-structured code following best practices. Include appropriate comments and follow the existing code style."
      [] serviceType = "translation" ->
            "You are a translation assistant. Translate text accurately while preserving technical terms and context. Return only the translated text without explanations."
      [] serviceType = "documentation" ->
            "You are a documentation assistant. Create clear, comprehensive documentation that is well-structured and easy to understand. Include examples where appropriate."
      [] OTHER -> "You are an AI assistant. Provide helpful and accurate responses."

\* getTemperatureForService without the switch: the default for every category
getTemperatureForServiceDefault(serviceType) == 5

\* in tenths
getTemperatureForService(serviceType) ==
    CASE serviceType = "mockGenerator" -> 7
      [] serviceType = "codeGenerator" -> 3
      [] serviceType = "translation" -> 1
      [] serviceType = "documentation" -> 4
      [] OTHER -> 5

\* getTokenLimitByService with translation scaled from the high limit
getTokenLimitByServiceHigh(serviceType, highLimit, defaultLimit) ==
    CASE serviceType = "mockGenerator" -> highLimit
      [] serviceType = "codeGenerator" -> (highLimit * 3) \div 4
      [] serviceType = "translation" -> (highLimit * 3) \div 4
      [] serviceType = "documentation" -> highLimit
      [] OTHER -> defaultLimit

getTokenLimitByService(serviceType, highLimit, defaultLimit) ==
    CASE serviceType = "mockGenerator" -> highLimit
      [] serviceType = "codeGenerator" -> (highLimit * 3) \div 4
      [] serviceType = "translation" -> (defaultLimit * 3) \div 4
      [] serviceType = "documentation" -> highLimit
      [] OTHER -> defaultLimit

\* A completion: a value returned, or an exception thrown with a message.
Returned(v) == [threw |-> FALSE, value |-> v, message |-> ""]
Thrown(m) == [threw |-> TRUE, value |-> 0, message |-> m]

\* model.includes(...) on an undefined model is a TypeError
getMaxTokensForService(config, serviceType, environment) ==
    LET model == getModelForService(config, serviceType, environment)
    IN  IF model = None
        THEN Thrown("Cannot read properties of undefined (reading 'includes')")
        ELSE IF Includes(model[1], "claude-3")
             THEN Returned(getTokenLimitByService(serviceType, 8000, 4000))
        ELSE IF Includes(model[1], "gpt-4")
             THEN Returned(getTokenLimitByService(serviceType, 6000, 3000))
        ELSE IF Includes(model[1], "gpt-3.5")
             THEN Returned(getTokenLimitByService(serviceType, 3000, 2000))
        ELSE IF Includes(model[1], "gemini")
             THEN Returned(getTokenLimitByService(serviceType, 7000, 3500))
        ELSE Returned(getTokenLimitByService(serviceType, 4000, 2000))


-----------------------------------------------------------------------------
(* generate(), up to and including the call of fetch *)

\* ResponseFormat without the capability test: forceJson alone decides
ResponseFormatUnchecked(options, model) ==
    IF TruthyBool(options.forceJson) THEN Some("json_object") ELSE None

\* lines 92-95: the JSON-mode negotiation.  The regular expressions test
\* String(model), which is "undefined" for an undefined model.
ResponseFormat(options, model) ==
    IF TruthyBool(options.forceJson) /\ supportsJsonMode(Str(model))
    THEN Some("json_object")
    ELSE None

\* The arguments generate() passes to fetch, all evaluated when fetch is called.
\* JSON.stringify leaves a property whose value is undefined out of the body:
\* a body field that is None is absent from the wire.
FetchArgs(config, serviceType, model, systemPrompt, prompt, temperature, maxTokens, options) ==
    [ url |-> Str(config.baseURL) \o "/chat/completions",
      method |-> "POST",
      authorization |-> "Bearer " \o Str(config.apiKey),
      contentType |-> "application/json",
      referer |-> "https://github.com/bramato/openrouter-agents",
      title |-> "OpenRouter Agents " \o serviceType,
      body |-> [ model |-> model,
                 system |-> systemPrompt,
                 user |-> prompt,
                 temperature |-> temperature,
                 max_tokens |-> maxTokens,
                 response_format |-> ResponseFormat(options, model) ] ]

NoFetch ==
    [ url |-> "", method |-> "", authorization |-> "", contentType |-> "",
      referer |-> "", title |-> "",
      body |-> [ model |-> None, system |-> "", user |-> "", temperature |-> 0,
                 max_tokens |-> 0, response_format |-> None ] ]

\* AssembleRequest with the environment overrides consulted before options.model
AssembleRequestEnvFirst(config, serviceType, environment, prompt, options) ==
    LET override == getModelForService([config EXCEPT !.model = None], serviceType, environment)
        model == IF TruthyStr(override) THEN override
                 ELSE IF TruthyStr(options.model) THEN options.model ELSE config.model
        systemPrompt == IF TruthyStr(options.systemPrompt)
                        THEN options.systemPrompt[1]
                        ELSE getSystemPromptForService(serviceType, options.forceJson)
        temperature == IF options.temperature # None
                       THEN options.temperature[1]
                       ELSE getTemperatureForService(serviceType)
        maxTokens == IF options.maxTokens # None
                     THEN Returned(options.maxTokens[1])
                     ELSE getMaxTokensForService(config, serviceType, environment)
    IN  IF maxTokens.threw
        THEN [threw |-> TRUE, message |-> maxTokens.message, posts |-> 0, fetch |-> NoFetch]
        ELSE [threw |-> FALSE, message |-> "", posts |-> 1,
              fetch |-> FetchArgs(config, serviceType, model, systemPrompt, prompt,
                                  temperature, maxTokens.value, options)]

\* lines 70-106: the synchronous part of generate().  It either throws before
\* fetch is called (posts = 0) or calls fetch once with the assembled request.
AssembleRequest(config, serviceType, environment, prompt, options) ==
    LET model == IF TruthyStr(options.model)
                 THEN options.model
                 ELSE getModelForService(config, serviceType, environment)
        systemPrompt == IF TruthyStr(options.systemPrompt)
                        THEN options.systemPrompt[1]
                        ELSE getSystemPromptForService(serviceType, options.forceJson)
        temperature == IF options.temperature # None
                       THEN options.temperature[1]
                       ELSE getTemperatureForService(serviceType)
        maxTokens == IF options.maxTokens # None
                     THEN Returned(options.maxTokens[1])
                     ELSE getMaxTokensForService(config, serviceType, environment)
    IN  IF maxTokens.threw
        THEN [threw |-> TRUE, message |-> maxTokens.message, posts |-> 0, fetch |-> NoFetch]
        ELSE [threw |-> FALSE, message |-> "", posts |-> 1,
              fetch |-> FetchArgs(config, serviceType, model, systemPrompt, prompt,
                                  temperature, maxTokens.value, options)]

-----------------------------------------------------------------------------
(* JSON: the values response.json() can yield, and JSON.stringify *)

JNull == [t |-> "null"]
JStr(s) == [t |-> "string", s |-> s]
JArr(items) == [t |-> "array", items |-> items]
JObj(members) == [t |-> "object", members |-> members]   \* <<key, value>> pairs, in order

RECURSIVE JoinWith(_, _)
JoinWith(parts, sep) ==
    IF parts = <<>> THEN ""
    ELSE IF Len(parts) = 1 THEN parts[1]
    ELSE parts[1] \o sep \o JoinWith(Tail(parts), sep)

RECURSIVE JSONstringify(_)
JSONstringify(v) ==
    CASE v.t = "null" -> "null"
      [] v.t = "string" -> "\"" \o v.s \o "\""
      [] v.t = "array" ->
            "[" \o JoinWith([i \in 1..Len(v.items) |-> JSONstringify(v.items[i])], ",") \o "]"
      [] v.t = "object" ->
            "{" \o JoinWith([i \in 1..Len(v.members) |->
                              "\"" \o v.members[i][1] \o "\":" \o JSONstringify(v.members[i][2])], ",")
            \o "}"

\* the property `key` of a JSON value that is not null: Some(value), or None (undefined)
Prop(v, key) ==
    IF v.t = "object" /\ \E i \in 1..Len(v.members) : v.members[i][1] = key
    THEN Some(v.members[CHOOSE i \in 1..Len(v.members) : v.members[i][1] = key][2])
    ELSE None

\* The response bodies of the model, as sent, and what JSON.parse makes of each.
RateLimited == JObj(<< <<"error", JObj(<< <<"message", JStr("rate limited")>> >>)>> >>)
Message(content) == JObj(<< <<"role", JStr("assistant")>>, <<"content", JStr(content)>> >>)

ParseOk(v) == [ok |-> TRUE, value |-> v, message |-> ""]
ParseFail(m) == [ok |-> FALSE, value |-> JNull, message |-> m]

JSONparse(text) ==
    CASE text = "{\"error\":{\"message\":\"rate limited\"}}" -> ParseOk(RateLimited)
      [] text = "{ \"error\": { \"message\": \"rate limited\" } }" -> ParseOk(RateLimited)
      [] text = "{\"choices\":[{\"message\":{\"role\":\"assistant\",\"content\":\"hello\"}}]}" ->
            ParseOk(JObj(<< <<"choices", JArr(<< JObj(<< <<"message", Message("hello")>> >>) >>)>> >>))
      [] text = "{\"choices\":[{\"message\":{\"role\":\"assistant\",\"content\":\"\"}}]}" ->
            ParseOk(JObj(<< <<"choices", JArr(<< JObj(<< <<"message", Message("")>> >>) >>)>> >>))
      [] text = "{\"choices\":[{\"message\":{\"role\":\"assistant\"}}]}" ->
            ParseOk(JObj(<< <<"choices", JArr(<< JObj(<< <<"message",
                        JObj(<< <<"role", JStr("assistant")>> >>)>> >>) >>)>> >>))
      [] text = "{\"choices\":[{}]}" ->
            ParseOk(JObj(<< <<"choices", JArr(<< JObj(<<>>) >>)>> >>))
      [] text = "{\"choices\":[null]}" ->
            ParseOk(JObj(<< <<"choices", JArr(<< JNull >>)>> >>))
      [] text = "{\"choices\":[]}" ->
            ParseOk(JObj(<< <<"choices", JArr(<<>>)>> >>))
      [] text = "{\"choices\":[{\"message\":{\"role\":\"assistant\",\"content\":\" hello \"}}]}" ->
            ParseOk(JObj(<< <<"choices", JArr(<< JObj(<< <<"message", Message(" hello ")>> >>) >>)>> >>))
      [] text = "{\"choices\":[{\"message\":{\"role\":\"assistant\",\"content\":\" [] \"}}]}" ->
            ParseOk(JObj(<< <<"choices", JArr(<< JObj(<< <<"message", Message(" [] ")>> >>) >>)>> >>))
      [] text = "{\"data\":[{\"id\":\"openai/gpt-4.1-nano\"},{\"id\":\"meta-llama/llama-3.1-8b-instruct:free\"},{\"id\":\"mistralai/mistral-7b-instruct\",\"supported_generation_methods\":[\"json_object\"]},{\"id\":\"mirror/anthropic/claude-3-haiku\",\"supported_generation_methods\":[]}]}" ->
            ParseOk(JObj(<< <<"data", JArr(<<
                JObj(<< <<"id", JStr("openai/gpt-4.1-nano")>> >>),
                JObj(<< <<"id", JStr("meta-llama/llama-3.1-8b-instruct:free")>> >>),
                JObj(<< <<"id", JStr("mistralai/mistral-7b-instruct")>>,
                        <<"supported_generation_methods", JArr(<< JStr("json_object") >>)>> >>),
                JObj(<< <<"id", JStr("mirror/anthropic/claude-3-haiku")>>,
                        <<"supported_generation_methods", JArr(<<>>)>> >>) >>)>> >>))
      [] text = "{\"data\":[null]}" -> ParseOk(JObj(<< <<"data", JArr(<< JNull >>)>> >>))
      [] text = "{\"data\":[{}]}" -> ParseOk(JObj(<< <<"data", JArr(<< JObj(<<>>) >>)>> >>))
      [] text = "{\"data\":{}}" -> ParseOk(JObj(<< <<"data", JObj(<<>>)>> >>))
      [] text = "{\"data\":[]}" -> ParseOk(JObj(<< <<"data", JArr(<<>>)>> >>))
      [] text = "{}" -> ParseOk(JObj(<<>>))
      [] text = "[]" -> ParseOk(JArr(<<>>))
      [] text = "null" -> ParseOk(JNull)
      [] text = "hello" -> ParseFail("Unexpected token h in JSON at position 0")
      [] text = "<html>Bad Gateway</html>" ->
            ParseFail("Unexpected token < in JSON at position 0")
      [] OTHER -> ParseFail("Unexpected end of JSON input")


-----------------------------------------------------------------------------
(* generate(), from the settling of fetch's promise on *)

ResponseOk(status) == status >= 200 /\ status <= 299

\* the outcome of generate(): the text it resolves to, or the message of the
\* Error it throws
Resolves(text) == [threw |-> FALSE, text |-> text, message |-> ""]
Rejects(message) == [threw |-> TRUE, text |-> "", message |-> message]

\* NotOkCause without the status text
NotOkCauseNoStatusText(response) ==
    LET parsed == JSONparse(response.body)
        errorData == IF parsed.ok THEN parsed.value ELSE JObj(<<>>)
    IN  "OpenRouter API error: " \o ToString(response.status)
        \o " - " \o JSONstringify(errorData)

\* NotOkCause without the .catch(() => ({})): the parse failure is what is thrown
NotOkCauseNoCatch(response) ==
    LET parsed == JSONparse(response.body)
    IN  IF parsed.ok
        THEN "OpenRouter API error: " \o ToString(response.status) \o " "
             \o response.statusText \o " - " \o JSONstringify(parsed.value)
        ELSE parsed.message

\* lines 108-113: the message of the Error thrown on a response that is not ok;
\* response.json().catch(() => ({})) puts {} for a body that does not parse
NotOkCause(response) ==
    LET parsed == JSONparse(response.body)
        errorData == IF parsed.ok THEN parsed.value ELSE JObj(<<>>)
    IN  "OpenRouter API error: " \o ToString(response.status) \o " "
        \o response.statusText \o " - " \o JSONstringify(errorData)

\* o?.key, for o a JSON value or undefined (None)
OptionalChain(o, key) ==
    IF o = None \/ o[1].t = "null" THEN None ELSE Prop(o[1], key)

\* line 116: data.choices[0]?.message?.content || ''.  The contents of the
\* model's bodies are strings, or absent.
ExtractContent(data) ==
    IF data.t = "null"
    THEN Rejects("Cannot read properties of null (reading 'choices')")
    ELSE LET choices == Prop(data, "choices")
         IN  IF choices = None
             THEN Rejects("Cannot read properties of undefined (reading '0')")
             ELSE IF choices[1].t = "null"
             THEN Rejects("Cannot read properties of null (reading '0')")
             ELSE LET first == IF choices[1].t = "array" /\ Len(choices[1].items) >= 1
                               THEN Some(choices[1].items[1])
                               ELSE None
                      content == OptionalChain(OptionalChain(first, "message"), "content")
                  IN  IF content # None /\ content[1].t = "string" /\ content[1].s # ""
                      THEN Resolves(content[1].s)
                      ELSE Resolves("")

\* lines 97-116: what the try block does once fetch's promise has settled
TryRoundTrip(outcome) ==
    IF outcome.kind = "reject"
    THEN Rejects(outcome.cause)
    ELSE IF ~ResponseOk(outcome.status)
    THEN Rejects(NotOkCause(outcome))
    ELSE LET parsed == JSONparse(outcome.body)
         IN  IF ~parsed.ok THEN Rejects(parsed.message) ELSE ExtractContent(parsed.value)

\* WrapError as a catch block that throws the error it caught again
WrapErrorRethrow(serviceType, message) == message

\* lines 117-121: the catch block; everything thrown in the try block is an Error
WrapError(serviceType, message) ==
    "Failed to generate with " \o serviceType \o ": " \o message

-----------------------------------------------------------------------------
(* The inputs of the model *)

BuiltinURL == "https://openrouter.ai/api/v1"

Config(apiKey, baseURL, model) == [apiKey |-> apiKey, baseURL |-> baseURL, model |-> model]

\* the configurations a client is constructed from; the last one is the
\* README's, which names no model
CoreConfigs ==
    { Config(Some("sk-old"), Some(BuiltinURL), Some("anthropic/claude-3.5-sonnet")),
      Config(Some("sk-old"), Some(BuiltinURL), None) }

AllConfigs ==
    CoreConfigs \cup
    { Config(Some("sk-old"), Some(BuiltinURL), Some("meta-llama/llama-3.1-8b-instruct:free")),
      Config(Some("sk-old"), Some(BuiltinURL), Some("openai/gpt-3.5-turbo")) }

\* Partial<OpenRouterConfig>: a field is absent (None), or present with a value
\* that is a string or undefined (Some(Some(s)), Some(None))
Partial(apiKey, baseURL, model) == [apiKey |-> apiKey, baseURL |-> baseURL, model |-> model]

Partials ==
    { Partial(Some(Some("sk-new")), None, None),
      Partial(None, Some(Some("http://localhost:8080/v1")), None),
      Partial(None, None, Some(Some("openai/gpt-4.1-nano"))),
      Partial(None, None, Some(None)) }

\* the partials of the specification with calls in flight: one per field
CorePartials ==
    { Partial(Some(Some("sk-new")), None, None),
      Partial(None, Some(Some("http://localhost:8080/v1")), None),
      Partial(None, None, Some(None)) }

CoreServiceTypes == {"mockGenerator", "translation"}

\* what the caller writes into a field of an object it holds
Fields == {"apiKey", "baseURL", "model"}
MutatedValue(field) ==
    CASE field = "apiKey" -> Some("sk-mutated")
      [] field = "baseURL" -> Some("http://mutated.example")
      [] OTHER -> Some("mutated/model")

Env(mock, translation, default) ==
    [v \in EnvVars |->
        CASE v = "OPENROUTER_MOCK_GENERATOR_MODEL" -> mock
          [] v = "OPENROUTER_TRANSLATION_MODEL" -> translation
          [] v = "OPENROUTER_DEFAULT_MODEL" -> default
          [] OTHER -> None]

CoreEnvs ==
    { Env(None, None, None),
      Env(Some("google/gemini-pro"), None, None) }

AllEnvs ==
    CoreEnvs \cup
    { Env(None, None, Some("openai/gpt-4.1-nano")),
      Env(Some("x-ai/claude-3-clone"), Some(""), Some("gpt-4")),
      Env(None, Some("nitro-llama-70b"), None) }

\* the environment of getDefaultConfig: the model variables, the API key
\* variable, and the base-URL variable the README documents
DefaultEnvVars == EnvVars \cup {"OPENROUTER_API_KEY", "OPENROUTER_BASE_URL"}

EnvWith(apiKey, baseURL, default) ==
    [v \in DefaultEnvVars |->
        CASE v = "OPENROUTER_API_KEY" -> apiKey
          [] v = "OPENROUTER_BASE_URL" -> baseURL
          [] v = "OPENROUTER_DEFAULT_MODEL" -> default
          [] OTHER -> None]

DefaultEnvs ==
    { EnvWith(a, b, d) :
        a \in {None, Some(""), Some("sk-env")},
        b \in {None, Some("http://localhost:8080/v1")},
        d \in {None, Some(""), Some("openai/gpt-4.1-nano")} }

Options(systemPrompt, temperature, maxTokens, forceJson, model) ==
    [systemPrompt |-> systemPrompt, temperature |-> temperature,
     maxTokens |-> maxTokens, forceJson |-> forceJson, model |-> model]

NoOptions == Options(None, None, None, None, None)

CoreOptions ==
    { NoOptions,
      Options(None, None, Some(10), Some(TRUE), Some("openai/gpt-4.1-nano")) }

AllOptions ==
    { Options(sp, t, mt, fj, m) :
        sp \in {None, Some(""), Some("Be brief.")},
        t \in {None, Some(0), Some(15)},
        mt \in {None, Some(0), Some(10)},
        fj \in {None, Some(FALSE), Some(TRUE)},
        m \in {None, Some(""), Some("openai/gpt-4.1-nano"),
               Some("meta-llama/llama-3.1-8b-instruct:free"),
               Some("mirror/anthropic/claude-3-haiku")} }

Prompts == {"Generate 5 realistic user profiles"}

Response(status, statusText, body) ==
    [kind |-> "response", status |-> status, statusText |-> statusText,
     body |-> body, cause |-> ""]
Reject(cause) ==
    [kind |-> "reject", status |-> 0, statusText |-> "", body |-> "", cause |-> cause]
NoOutcome == [kind |-> "none", status |-> 0, statusText |-> "", body |-> "", cause |-> ""]

HelloBody == "{\"choices\":[{\"message\":{\"role\":\"assistant\",\"content\":\"hello\"}}]}"
RateLimitedBody == "{\"error\":{\"message\":\"rate limited\"}}"

Bodies ==
    { HelloBody, RateLimitedBody,
      "{ \"error\": { \"message\": \"rate limited\" } }",
      "{\"choices\":[{\"message\":{\"role\":\"assistant\",\"content\":\"\"}}]}",
      "{\"choices\":[{\"message\":{\"role\":\"assistant\"}}]}",
      "{\"choices\":[{}]}", "{\"choices\":[null]}", "{\"choices\":[]}",
      "{}", "null", "<html>Bad Gateway</html>", "" }

Statuses ==
    { <<200, "OK">>, <<201, "Created">>, <<429, "Too Many Requests">>, <<502, "">> }

\* responses whose content has blanks around it: a word, and a JSON text
PaddedBody == "{\"choices\":[{\"message\":{\"role\":\"assistant\",\"content\":\" hello \"}}]}"
PaddedJsonBody == "{\"choices\":[{\"message\":{\"role\":\"assistant\",\"content\":\" [] \"}}]}"

AgentOutcomes ==
    { Reject("fetch failed"),
      Response(200, "OK", PaddedBody),
      Response(200, "OK", PaddedJsonBody),
      Response(200, "OK", "{\"choices\":[{}]}"),
      Response(429, "Too Many Requests", RateLimitedBody) }

\* the responses of the models endpoint
LiveModelsBody ==
    "{\"data\":[{\"id\":\"openai/gpt-4.1-nano\"},{\"id\":\"meta-llama/llama-3.1-8b-instruct:free\"},{\"id\":\"mistralai/mistral-7b-instruct\",\"supported_generation_methods\":[\"json_object\"]},{\"id\":\"mirror/anthropic/claude-3-haiku\",\"supported_generation_methods\":[]}]}"

ListingBodies ==
    { LiveModelsBody, "{\"data\":[null]}", "{\"data\":[{}]}", "{\"data\":{}}", "{\"data\":[]}",
      "{}", "null", "<html>Bad Gateway</html>", "", RateLimitedBody }

ListingStatuses ==
    Statuses \cup { <<404, "Not Found">>, <<500, "Internal Server Error">> }

ListingOutcomes ==
    { Reject("fetch failed") } \cup
    { Response(st[1], st[2], b) : st \in ListingStatuses, b \in ListingBodies }

CoreOutcomes ==
    { Reject("fetch failed"),
      Response(200, "OK", HelloBody),
      Response(429, "Too Many Requests", RateLimitedBody) }

AllOutcomes ==
    { Reject("fetch failed") } \cup
    { Response(s[1], s[2], b) : s \in Statuses, b \in Bodies }


-----------------------------------------------------------------------------
(* The state machine *)

\* A heap cell no object occupies.  An object nothing refers to any more is
\* collected, and its cell is used again.
Free == [free |-> TRUE]

\* A client: its two fields, and the history of its configuration: the value
\* the constructor was given (initial) and, per field, the latest value an
\* updateConfig call supplied (supplied, None for a field no call supplied).
NoClient ==
    [ constructed |-> FALSE, config |-> 0, serviceType |-> "",
      initial |-> Config(None, None, None), supplied |-> Partial(None, None, None) ]

IdleCall ==
    [ st |-> "idle", client |-> 0, options |-> NoOptions,
      snap |-> [config |-> Config(None, None, None), serviceType |-> ""],
      fetch |-> NoFetch, posts |-> 0,
      outcome |-> NoOutcome, handledAs |-> "", text |-> "", error |-> "" ]

\* the objects the calling program holds a reference to
CallerHeld == literals \cup UNION {returned[c] : c \in Clients} \cup exported

\* the configuration object a client holds
Held(c) == heap[clients[c].config]

HasFree == \E i \in 1..MaxObjs : heap[i] = Free
Alloc == CHOOSE i \in 1..MaxObjs : heap[i] = Free /\ \A j \in 1..(i - 1) : heap[j] # Free

\* updateConfig as "this.config = config": the partial replaces the whole
updateConfigReplace(config, partial) ==
    [f \in Fields |-> IF partial[f] = None THEN None ELSE partial[f][1]]

\* { ...this.config, ...config }: every own property of the partial is copied,
\* one whose value is undefined too
updateConfig(config, partial) ==
    [f \in Fields |-> IF partial[f] = None THEN config[f] ELSE partial[f][1]]

\* lines 210-216: the static getDefaultConfig()
getDefaultConfig(environment) ==
    Config(IF TruthyStr(environment["OPENROUTER_API_KEY"])
           THEN environment["OPENROUTER_API_KEY"] ELSE Some(""),
           Some("https://openrouter.ai/api/v1"),
           IF TruthyStr(environment["OPENROUTER_DEFAULT_MODEL"])
           THEN environment["OPENROUTER_DEFAULT_MODEL"]
           ELSE Some("anthropic/claude-3.5-sonnet"))

\* getConfig as "return this.config": the object the client holds
getConfigLive(c) == clients[c].config

\* getConfig() returns { ...this.config }: a new object
getConfig(c) == Alloc

\* An agent: the fields type, model and openRouter of its AgentConfig (openRouter
\* is the identity of the nested object, 0 for undefined), and what its class
\* does in formatOutput.  No agent is constructed at the start.
NoAgent ==
    [ constructed |-> FALSE, type |-> "", format |-> "", model |-> None,
      openRouter |-> 0 ]

\* An AgentResponse: success, data and error
NoResponse == [success |-> FALSE, data |-> None, error |-> None]

\* A process() call: idle, awaiting generate(), returned (its promise resolved
\* to response) or rejected (its promise rejected with reason); whether
\* validateInput accepted the input and whether formatOutput was called
IdleProc ==
    [ st |-> "idle", agent |-> 0, input |-> None, validated |-> FALSE,
      formatted |-> FALSE, response |-> NoResponse, reason |-> "" ]

\* A fetchAvailableModels() call: idle, awaiting fetch, or returned; the URL it
\* fetched, the outcome of the fetch, whether the catch block ran, and the
\* value it returned
IdleListing ==
    [ st |-> "idle", jsonOnly |-> FALSE, url |-> "", outcome |-> NoOutcome,
      fallback |-> FALSE, models |-> JNull ]

AgentNames == {"data-generator", "translator-it"}

\* An AgentManager: its map from names to agents (0 for a name it does not
\* hold), what the latest createAgent() call did, the value the latest
\* exportConfig() call returned (per name, the agent's configuration or None),
\* and whether importConfig() has been called
NoCreation == [st |-> "none", type |-> "", agent |-> 0, message |-> ""]

EmptyManager ==
    [ agents |-> [n \in AgentNames |-> 0],
      created |-> NoCreation,
      configs |-> None,
      imported |-> FALSE ]

InitAgents ==
    /\ agents = [a \in Clients |-> NoAgent]
    /\ exported = {}
    /\ procs = [k \in CallIds |-> IdleProc]
    /\ registry = EmptyManager
    /\ listing = IdleListing

InitWith(configs, environments) ==
    /\ heap \in {[i \in 1..MaxObjs |-> IF i = 1 THEN cfg ELSE Free] : cfg \in configs}
    /\ literals = {1}
    /\ returned = [c \in Clients |-> {}]
    /\ clients = [c \in Clients |-> NoClient]
    /\ env \in environments
    /\ calls = [k \in CallIds |-> IdleCall]
    /\ writes = 0
    /\ InitAgents

\* the calling program writes a configuration object literal
NewConfig(cfg) ==
    /\ HasFree
    /\ heap' = [heap EXCEPT ![Alloc] = cfg]
    /\ literals' = literals \cup {Alloc}
    /\ UNCHANGED <<returned, clients, env, calls, writes>>
    /\ UNCHANGED agentVars

\* the calling program calls OpenRouterClient.getDefaultConfig() and keeps the
\* object it returns
GetDefaultConfig ==
    /\ HasFree
    /\ heap' = [heap EXCEPT ![Alloc] = getDefaultConfig(env)]
    /\ literals' = literals \cup {Alloc}
    /\ UNCHANGED <<returned, clients, env, calls, writes>>
    /\ UNCHANGED agentVars

\* new OpenRouterClient(config, serviceType): the reference is stored as given
Construct(c, o, serviceType) ==
    /\ ~clients[c].constructed
    /\ o \in CallerHeld
    /\ clients' = [clients EXCEPT ![c] =
                      [ constructed |-> TRUE, config |-> o, serviceType |-> serviceType,
                        initial |-> heap[o], supplied |-> Partial(None, None, None) ]]
    /\ UNCHANGED <<heap, literals, returned, env, calls, writes>>
    /\ UNCHANGED agentVars

\* updateConfig(config): this.config becomes a new object; the one it replaces
\* is collected unless something else refers to it
UpdateConfig(c, partial) ==
    /\ clients[c].constructed
    /\ HasFree
    /\ LET old == clients[c].config
           stillHeld == \/ old \in CallerHeld
                        \/ \E d \in Clients \ {c} :
                              clients[d].constructed /\ clients[d].config = old
       IN  /\ heap' = [heap EXCEPT ![Alloc] = updateConfig(heap[old], partial),
                                   ![old] = IF stillHeld THEN @ ELSE Free]
           /\ clients' = [clients EXCEPT
                  ![c].config = Alloc,
                  ![c].supplied = [f \in Fields |->
                                      IF partial[f] = None THEN @[f] ELSE partial[f]]]
    /\ UNCHANGED <<literals, returned, env, calls, writes>>
    /\ UNCHANGED agentVars

GetConfig(c) ==
    /\ clients[c].constructed
    /\ HasFree
    /\ LET o == getConfig(c)
       IN  /\ heap' = [heap EXCEPT ![o] = Held(c)]
           /\ returned' = [returned EXCEPT ![c] = @ \cup {o}]
    /\ UNCHANGED <<literals, clients, env, calls, writes>>
    /\ UNCHANGED agentVars

SetServiceType(c, serviceType) ==
    /\ clients[c].constructed
    /\ clients[c].serviceType # serviceType
    /\ clients' = [clients EXCEPT ![c].serviceType = serviceType]
    /\ UNCHANGED <<heap, literals, returned, env, calls, writes>>
    /\ UNCHANGED agentVars

\* the calling program assigns to a field of an object it holds
MutateObject(o, field) ==
    /\ o \in CallerHeld
    /\ writes < MaxWrites
    /\ heap[o][field] # MutatedValue(field)
    /\ heap' = [heap EXCEPT ![o][field] = MutatedValue(field)]
    /\ writes' = writes + 1
    /\ UNCHANGED <<literals, returned, clients, env, calls>>
    /\ UNCHANGED agentVars

\* RequestOnWire for a transport that reads the client's configuration when it
\* transmits, not when fetch is called
RequestOnWireLive(k) ==
    IF calls[k].st = "inflight"
    THEN [calls[k].fetch EXCEPT
            !.url = Str(Held(calls[k].client).baseURL) \o "/chat/completions",
            !.authorization = "Bearer " \o Str(Held(calls[k].client).apiKey)]
    ELSE calls[k].fetch

\* what the transport puts on the wire for call k: the strings fetch was given
RequestOnWire(k) == calls[k].fetch

\* generate(prompt, options) of client c, up to its first await: the call as
\* it stands once fetch has been called, or once the catch block has run
generateCalled(c, prompt, options) ==
    LET a == AssembleRequest(Held(c), clients[c].serviceType, env, prompt, options)
    IN  [ st |-> IF a.threw THEN "rejected" ELSE "inflight",
          client |-> c, options |-> options,
          snap |-> [config |-> Held(c), serviceType |-> clients[c].serviceType],
          fetch |-> a.fetch, posts |-> a.posts,
          outcome |-> NoOutcome,
          handledAs |-> IF a.threw THEN clients[c].serviceType ELSE "",
          text |-> "",
          error |-> IF a.threw
                    THEN WrapError(clients[c].serviceType, a.message)
                    ELSE "" ]

\* generate() that keeps the model it sent as the client's configured model
GenerateInvokeCaching(k, c, prompt, options) ==
    /\ clients[c].constructed
    /\ calls[k].st = "idle"
    /\ \A j \in 1..(k - 1) : calls[j].st # "idle"
    /\ calls' = [calls EXCEPT ![k] = generateCalled(c, prompt, options)]
    /\ heap' = IF calls'[k].st = "inflight"
               THEN [heap EXCEPT ![clients[c].config].model = calls'[k].fetch.body.model]
               ELSE heap
    /\ UNCHANGED <<literals, returned, clients, env, writes>>
    /\ UNCHANGED agentVars

\* generate(prompt, options) is called: it runs up to its first await
GenerateInvoke(k, c, prompt, options) ==
    /\ clients[c].constructed
    /\ calls[k].st = "idle"
    /\ \A j \in 1..(k - 1) : calls[j].st # "idle"
    /\ calls' = [calls EXCEPT ![k] = generateCalled(c, prompt, options)]
    /\ UNCHANGED <<heap, literals, returned, clients, env, writes>>
    /\ UNCHANGED agentVars

\* fetch's promise settles and generate() runs to its end; this.serviceType is
\* read when the catch block runs
generateSettled(k, outcome) ==
    LET serviceType == clients[calls[k].client].serviceType
        r == TryRoundTrip(outcome)
    IN  [ calls[k] EXCEPT !.st = IF r.threw THEN "rejected" ELSE "resolved",
                          !.outcome = outcome,
                          !.handledAs = serviceType,
                          !.text = r.text,
                          !.error = IF r.threw THEN WrapError(serviceType, r.message) ELSE "" ]

\* the settlement of fetch's promise reaches a generate() call made directly
GenerateSettle(k, outcome) ==
    /\ calls[k].st = "inflight"
    /\ procs[k].st = "idle"
    /\ calls' = [calls EXCEPT ![k] = generateSettled(k, outcome)]
    /\ UNCHANGED <<heap, literals, returned, clients, env, writes>>
    /\ UNCHANGED agentVars

-----------------------------------------------------------------------------
(* Agent: construction, configuration and process() *)

AgentTypes == {"mock-data", "code-generator", "translator", "documentation", "custom"}

\* Agent.ts 19-32
mapAgentTypeToServiceType(type) ==
    CASE type = "mock-data" -> "mockGenerator"
      [] type = "code-generator" -> "codeGenerator"
      [] type = "translator" -> "translation"
      [] type = "documentation" -> "documentation"
      [] OTHER -> "custom"

\* the README's validateInput: typeof input === 'string' && input.length > 0;
\* an input is a string, or undefined (None)
validateInput(input) == input # None /\ input[1] # ""

\* Agent.ts 88-98: a string is its own prompt, undefined becomes "undefined"
formatPrompt(input) == Str(input)

\* the README's getSystemPrompt, for an AgentConfig without systemPrompt
getSystemPrompt == "Generate clean code"

\* Agent.ts 78-86: the agent's temperature, maxTokens and features are not set
getProcessingOptions(agent, requestOptions) ==
    Options(IF TruthyStr(requestOptions.systemPrompt)
            THEN requestOptions.systemPrompt ELSE Some(getSystemPrompt),
            requestOptions.temperature,
            requestOptions.maxTokens,
            requestOptions.forceJson,
            IF TruthyStr(requestOptions.model) THEN requestOptions.model ELSE agent.model)

\* Agent.ts 100-108: this.config.model || this.config.openRouter.model reads a
\* property of config.openRouter when the agent has no model of its own
createMetadata(agent) ==
    IF ~TruthyStr(agent.model) /\ agent.openRouter = 0
    THEN Thrown("Cannot read properties of undefined (reading 'model')")
    ELSE Returned(IF TruthyStr(agent.model) THEN agent.model
                  ELSE heap[agent.openRouter].model)

IsBlank(ch) == ch \in {" ", "\n", "\t"}

\* String.prototype.trim
RECURSIVE Trim(_)
Trim(str) ==
    IF str = "" THEN ""
    ELSE IF IsBlank(SubSeq(str, 1, 1)) THEN Trim(SubSeq(str, 2, Len(str)))
    ELSE IF IsBlank(SubSeq(str, Len(str), Len(str))) THEN Trim(SubSeq(str, 1, Len(str) - 1))
    ELSE str

\* Agent.ts 122-131: the three replacements remove code fences, and the texts
\* of the model hold none, so they leave the text as it is; then trim()
cleanJsonString(jsonString) == Trim(jsonString)

\* Agent.ts 114-120
parseJson(jsonString) ==
    LET parsed == JSONparse(jsonString)
    IN  IF parsed.ok
        THEN [threw |-> FALSE, value |-> parsed.value, message |-> ""]
        ELSE [threw |-> TRUE, value |-> JNull,
              message |-> "Failed to parse JSON output: " \o parsed.message]

\* formatOutput of the agent's class: the README's output.trim(), or
\* this.parseJson(this.cleanJsonString(output))
AgentFormats == {"trim", "parseJson"}

formatOutput(format, output) ==
    IF format = "trim"
    THEN [threw |-> FALSE, value |-> JStr(Trim(output)), message |-> ""]
    ELSE parseJson(cleanJsonString(output))

Succeeded(data) == [success |-> TRUE, data |-> Some(data), error |-> None]
Failed(message) == [success |-> FALSE, data |-> None, error |-> Some(message)]

\* Agent.ts 67-75: the catch block of process(); its createMetadata call is
\* outside any try, so what it throws rejects the promise of process()
processCatch(proc, agent, message) ==
    LET metadata == createMetadata(agent)
    IN  IF metadata.threw
        THEN [proc EXCEPT !.st = "rejected", !.reason = metadata.message]
        ELSE [proc EXCEPT !.st = "returned", !.response = Failed(message)]

\* a return statement of the try block: its createMetadata call is inside the
\* try, so what it throws is caught
processReturn(proc, agent, response) ==
    LET metadata == createMetadata(agent)
    IN  IF metadata.threw
        THEN processCatch(proc, agent, metadata.message)
        ELSE [proc EXCEPT !.st = "returned", !.response = response]

\* the AgentConfig objects of the model: no model of the agent's own, or one
AgentModels == {None, Some("openai/gpt-4.1-nano")}

\* Partial<AgentConfig> updates: model and openRouter are absent (None), or
\* present with a value that may be undefined (Some(None)); an openRouter
\* object may lack fields
AgentUpdate(model, openRouter) == [model |-> model, openRouter |-> openRouter]

AgentUpdates ==
    { AgentUpdate(Some(Some("openai/gpt-4.1-nano")), None),
      AgentUpdate(None, Some(None)),
      AgentUpdate(None, Some(Some(Config(None, None, Some("openai/gpt-4.1-nano"))))),
      AgentUpdate(None, Some(Some(Config(Some("sk-new"), Some(BuiltinURL),
                                         Some("openai/gpt-4.1-nano"))))) }

\* the own properties of a configuration object, as a Partial
AsPartial(object) ==
    [f \in Fields |-> IF object[f] = None THEN None ELSE Some(object[f])]

Alloc2 == CHOOSE i \in 1..MaxObjs : /\ i # Alloc
                                    /\ heap[i] = Free
                                    /\ \A j \in 1..(i - 1) : j # Alloc => heap[j] # Free

\* new SomeAgent(config): BaseAgent keeps the AgentConfig, and the client is
\* constructed with config.openRouter itself (Agent.ts 14-17)
AgentConstruct(a, o, type, format, model) ==
    /\ ~agents[a].constructed
    /\ ~clients[a].constructed
    /\ o \in CallerHeld
    /\ agents' = [agents EXCEPT ![a] =
                     [ constructed |-> TRUE, type |-> type, format |-> format,
                       model |-> model, openRouter |-> o ]]
    /\ clients' = [clients EXCEPT ![a] =
                      [ constructed |-> TRUE, config |-> o,
                        serviceType |-> mapAgentTypeToServiceType(type),
                        initial |-> heap[o], supplied |-> Partial(None, None, None) ]]
    /\ UNCHANGED <<heap, literals, returned, env, calls, writes>>
    /\ UNCHANGED <<exported, procs, registry, listing>>

\* Agent.updateConfig(updates), Agent.ts 146-153: the agent's config takes the
\* properties of updates as they are, and the client merges updates.openRouter
\* into a new object when it is truthy
AgentUpdateConfig(a, updates) ==
    /\ agents[a].constructed
    /\ (updates.openRouter # None /\ updates.openRouter # Some(None)) =>
            \E i, j \in 1..MaxObjs : i # j /\ heap[i] = Free /\ heap[j] = Free
    /\ LET given == updates.openRouter # None /\ updates.openRouter # Some(None)
           object == IF given THEN Alloc ELSE 0
           merged == IF given THEN Alloc2 ELSE clients[a].config
           written == IF given
                      THEN [heap EXCEPT
                              ![object] = updates.openRouter[1][1],
                              ![merged] = updateConfig(Held(a), AsPartial(updates.openRouter[1][1]))]
                      ELSE heap
       IN  /\ agents' = [agents EXCEPT
                  ![a].model = IF updates.model = None THEN @ ELSE updates.model[1],
                  ![a].openRouter = IF updates.openRouter = None THEN @ ELSE object]
           /\ clients' = [clients EXCEPT
                  ![a].config = merged,
                  ![a].supplied = IF given
                                  THEN [f \in Fields |->
                                          IF updates.openRouter[1][1][f] = None
                                          THEN @[f] ELSE Some(updates.openRouter[1][1][f])]
                                  ELSE @]
           /\ LET live == CallerHeld
                          \cup {clients'[c].config : c \in Clients}
                          \cup {agents'[b].openRouter : b \in Clients}
              IN  heap' = [i \in 1..MaxObjs |-> IF i \in live THEN written[i] ELSE Free]
    /\ UNCHANGED <<literals, returned, env, calls, writes>>
    /\ UNCHANGED <<exported, procs, registry, listing>>

\* Agent.getConfig(), Agent.ts 155-157: { ...this.config } copies the
\* properties of the AgentConfig; the copy's openRouter is the agent's object
AgentGetConfig(a) ==
    /\ agents[a].constructed
    /\ agents[a].openRouter # 0
    /\ agents[a].openRouter \notin exported
    /\ exported' = exported \cup {agents[a].openRouter}
    /\ UNCHANGED <<heap, literals, returned, clients, env, calls, writes>>
    /\ UNCHANGED <<agents, procs, registry, listing>>

\* process(request), Agent.ts 38-76, up to its first await
AgentProcess(k, a, input, requestOptions) ==
    /\ agents[a].constructed
    /\ calls[k].st = "idle"
    /\ procs[k].st = "idle"
    /\ \A j \in 1..(k - 1) : calls[j].st # "idle" \/ procs[j].st # "idle"
    /\ LET proc == [IdleProc EXCEPT !.agent = a, !.input = input,
                                    !.validated = validateInput(input)]
       IN  IF ~validateInput(input)
           THEN /\ procs' = [procs EXCEPT ![k] =
                       processReturn(proc, agents[a], Failed("Invalid input provided"))]
                /\ calls' = calls
           ELSE /\ calls' = [calls EXCEPT ![k] =
                       generateCalled(a, formatPrompt(input),
                                      getProcessingOptions(agents[a], requestOptions))]
                /\ procs' = [procs EXCEPT ![k] =
                       IF calls'[k].st = "rejected"
                       THEN processCatch(proc, agents[a], calls'[k].error)
                       ELSE [proc EXCEPT !.st = "awaiting"]]
    /\ UNCHANGED <<heap, literals, returned, clients, env, writes>>
    /\ UNCHANGED <<agents, exported, registry, listing>>

\* the settlement of fetch's promise reaches the generate() call of a
\* process() call, and process() runs to its end
AgentProcessSettle(k, outcome) ==
    /\ procs[k].st = "awaiting"
    /\ calls[k].st = "inflight"
    /\ calls' = [calls EXCEPT ![k] = generateSettled(k, outcome)]
    /\ LET agent == agents[procs[k].agent]
           formatted == formatOutput(agent.format, calls'[k].text)
       IN  procs' = [procs EXCEPT ![k] =
               IF calls'[k].st = "rejected"
               THEN processCatch(@, agent, calls'[k].error)
               ELSE IF formatted.threw
               THEN processCatch([@ EXCEPT !.formatted = TRUE], agent, formatted.message)
               ELSE processReturn([@ EXCEPT !.formatted = TRUE], agent,
                                  Succeeded(formatted.value))]
    /\ UNCHANGED <<heap, literals, returned, clients, env, writes>>
    /\ UNCHANGED <<agents, exported, registry, listing>>

\* the calling program assigns to a field of the openRouter object of a value
\* Agent.getConfig() returned
MutateExported(o, field) ==
    /\ o \in exported
    /\ MutateObject(o, field)

-----------------------------------------------------------------------------
(* OpenRouterAPI: the model listing *)

\* an OpenRouterModel, by its id and its supported generation methods
ModelOf(id, methods) ==
    JObj(<< <<"id", JStr(id)>>,
            <<"supported_generation_methods",
              JArr([i \in 1..Len(methods) |-> JStr(methods[i])])>> >>)

\* OpenRouterAPI.ts 30-36, 40: a pattern tests the string of model.id
isKnownJsonCapable(model) ==
    LET id == IF Prop(model, "id") # None /\ Prop(model, "id")[1].t = "string"
              THEN Prop(model, "id")[1].s ELSE "undefined"
    IN  \/ StartsWith(id, "openai/")
        \/ StartsWith(id, "gpt-")
        \/ StartsWith(id, "nitro")
        \/ StartsWith(id, "anthropic/claude-3")
        \/ StartsWith(id, "google/gemini")

\* OpenRouterAPI.ts 43: model.supported_generation_methods?.includes('json_object') ?? false
hasJsonSupport(model) ==
    LET methods == Prop(model, "supported_generation_methods")
    IN  /\ methods # None
        /\ methods[1].t = "array"
        /\ \E i \in 1..Len(methods[1].items) : methods[1].items[i] = JStr("json_object")

keepsModel(model) == isKnownJsonCapable(model) \/ hasJsonSupport(model)

\* OpenRouterAPI.ts 28-47: models.filter(...) of a value that is not an array,
\* and model.id of a null element, are TypeErrors
filterJsonCapableModels(models) ==
    IF models.t # "array"
    THEN Thrown("models.filter is not a function")
    ELSE IF \E i \in 1..Len(models.items) : models.items[i].t = "null"
    THEN Thrown("Cannot read properties of null (reading 'id')")
    ELSE Returned(JArr(SelectSeq(models.items, keepsModel)))

\* OpenRouterAPI.ts 133-174
allFallbacks ==
    << ModelOf("anthropic/claude-3.5-sonnet", <<"json_object">>),
       ModelOf("openai/gpt-4.1-nano", <<"json_object">>),
       ModelOf("anthropic/claude-3-haiku", <<"json_object">>),
       ModelOf("meta-llama/llama-3.1-8b-instruct:free", <<>>) >>

\* getFallbackModels that returns the whole list whatever jsonOnly is
getFallbackModelsUnfiltered(jsonOnly) == JArr(allFallbacks)

\* OpenRouterAPI.ts 132-177
getFallbackModels(jsonOnly) ==
    IF jsonOnly
    THEN filterJsonCapableModels(JArr(allFallbacks)).value
    ELSE JArr(allFallbacks)

\* OpenRouterAPI.ts 10-21: the try block of fetchAvailableModels once fetch's
\* promise has settled
tryModels(jsonOnly, outcome) ==
    IF outcome.kind = "reject"
    THEN Thrown(outcome.cause)
    ELSE IF ~ResponseOk(outcome.status)
    THEN Thrown("Failed to fetch models: " \o ToString(outcome.status) \o " " \o outcome.statusText)
    ELSE LET parsed == JSONparse(outcome.body)
         IN  IF ~parsed.ok
             THEN Thrown(parsed.message)
             ELSE IF parsed.value.t = "null"
             THEN Thrown("Cannot read properties of null (reading 'data')")
             ELSE LET data == Prop(parsed.value, "data")
                      models == IF data = None \/ data[1].t = "null" \/ data[1] = JStr("")
                                THEN JArr(<<>>) ELSE data[1]
                  IN  IF jsonOnly THEN filterJsonCapableModels(models) ELSE Returned(models)

\* fetchAvailableModels(jsonOnly) is called: it runs up to await fetch
FetchModelsInvoke(jsonOnly) ==
    /\ listing.st = "idle"
    /\ listing' = [listing EXCEPT !.st = "awaiting", !.jsonOnly = jsonOnly,
                                  !.url = BuiltinURL \o "/models"]
    /\ UNCHANGED <<heap, literals, returned, clients, env, calls, writes>>
    /\ UNCHANGED <<agents, exported, procs, registry>>

\* fetch's promise settles and fetchAvailableModels runs to its end: what the
\* try block throws is logged, and the catch block returns the fallback list
FetchModelsSettle(outcome) ==
    /\ listing.st = "awaiting"
    /\ LET r == tryModels(listing.jsonOnly, outcome)
       IN  listing' = [listing EXCEPT
               !.st = "returned",
               !.outcome = outcome,
               !.fallback = r.threw,
               !.models = IF r.threw THEN getFallbackModels(listing.jsonOnly) ELSE r.value]
    /\ UNCHANGED <<heap, literals, returned, clients, env, calls, writes>>
    /\ UNCHANGED <<agents, exported, procs, registry>>

-----------------------------------------------------------------------------
(* AgentManager *)

\* the names the manager holds an agent for
Registered == {n \in AgentNames : registry.agents[n] # 0}

\* Agent.ts 252-256: the body is a comment and a throw
getAgentClass(type) ==
    Thrown("Agent type " \o type \o " not implemented yet. Use specific agent classes directly.")

\* Agent.ts 241-250: getAgentClass(config.type) throws for every type, so the
\* statements after it (the overlay of the default configuration and the
\* construction) are never reached
createAgent(config) ==
    LET AgentClass == getAgentClass(config.type)
    IN  Thrown(AgentClass.message)

\* registerAgent(name, agent), Agent.ts 217-219, with an agent constructed from
\* a specific class
ManagerRegisterAgent(n, a) ==
    /\ agents[a].constructed
    /\ registry' = [registry EXCEPT !.agents[n] = a]
    /\ UNCHANGED <<heap, literals, returned, clients, env, calls, writes>>
    /\ UNCHANGED <<agents, exported, procs, listing>>

\* removeAgent(name), Agent.ts 258-260
ManagerRemoveAgent(n) ==
    /\ registry.agents[n] # 0
    /\ registry' = [registry EXCEPT !.agents[n] = 0]
    /\ UNCHANGED <<heap, literals, returned, clients, env, calls, writes>>
    /\ UNCHANGED <<agents, exported, procs, listing>>

\* createAgent(config), called by the program
ManagerCreateAgent(type) ==
    /\ LET r == createAgent([type |-> type])
       IN  registry' = [registry EXCEPT !.created =
               IF r.threw
               THEN [st |-> "threw", type |-> type, agent |-> 0, message |-> r.message]
               ELSE [st |-> "returned", type |-> type, agent |-> r.value, message |-> ""]]
    /\ UNCHANGED <<heap, literals, returned, clients, env, calls, writes>>
    /\ UNCHANGED <<agents, exported, procs, listing>>

\* updateAgentConfig(name, updates), Agent.ts 266-274: the agent's updateConfig
ManagerUpdateAgentConfig(n, updates) ==
    /\ registry.agents[n] # 0
    /\ AgentUpdateConfig(registry.agents[n], updates)

\* exportConfig(), Agent.ts 322-330: agent.getConfig() of every agent
ManagerExportConfig ==
    /\ LET configs == [n \in AgentNames |->
                          IF registry.agents[n] = 0 THEN None
                          ELSE Some([ type |-> agents[registry.agents[n]].type,
                                      model |-> agents[registry.agents[n]].model,
                                      openRouter |-> agents[registry.agents[n]].openRouter ])]
       IN  registry' = [registry EXCEPT !.configs = Some(configs), !.imported = FALSE]
    /\ exported' = exported \cup
                      ({agents[registry.agents[n]].openRouter : n \in Registered} \ {0})
    /\ UNCHANGED <<heap, literals, returned, clients, env, calls, writes>>
    /\ UNCHANGED <<agents, procs, listing>>

\* importConfig(configs) of the exported value, Agent.ts 332-343: the map is
\* cleared, and an entry is registered when createAgent returns an agent for
\* it; what createAgent throws is logged
ManagerImportConfig ==
    /\ registry.configs # None
    /\ ~registry.imported
    /\ registry' = [registry EXCEPT
            !.agents = [n \in AgentNames |->
                           IF registry.configs[1][n] # None
                              /\ ~createAgent(registry.configs[1][n][1]).threw
                           THEN createAgent(registry.configs[1][n][1]).value
                           ELSE 0],
            !.imported = TRUE]
    /\ UNCHANGED <<heap, literals, returned, clients, env, calls, writes>>
    /\ UNCHANGED <<agents, exported, procs, listing>>

-----------------------------------------------------------------------------
(* Spec: one client, its two fields, and generate() calls in flight *)

Init == InitWith(CoreConfigs, CoreEnvs)

Next ==
    \/ \E t \in CoreServiceTypes : Construct(1, 1, t)
    \/ \E p \in CorePartials : UpdateConfig(1, p)
    \/ \E t \in CoreServiceTypes : SetServiceType(1, t)
    \/ \E k \in CallIds, p \in Prompts, o \in CoreOptions : GenerateInvoke(k, 1, p, o)
    \/ \E k \in CallIds, o \in CoreOutcomes : GenerateSettle(k, o)

Spec == Init /\ [][Next]_vars

(* SpecHeap: the clients and the configuration objects they and the calling
   program hold *)

InitHeap ==
    InitWith({Config(Some("sk-old"), Some(BuiltinURL), Some("anthropic/claude-3.5-sonnet"))},
             {Env(None, None, None)})

NextHeap ==
    \/ \E cfg \in {Config(Some("sk-old"), Some(BuiltinURL), None)} : NewConfig(cfg)
    \/ \E c \in Clients, o \in 1..MaxObjs, t \in {"custom"} : Construct(c, o, t)
    \/ \E c \in Clients, p \in {Partial(Some(Some("sk-new")), None, None)} : UpdateConfig(c, p)
    \/ \E c \in Clients : GetConfig(c)
    \/ \E o \in 1..MaxObjs, f \in Fields : MutateObject(o, f)

SpecHeap == InitHeap /\ [][NextHeap]_vars

(* SpecResolve: one client, every combination of category, environment,
   configuration and options, and the request generate() assembles *)

InitResolve == InitWith(AllConfigs, AllEnvs)

NextResolve ==
    \/ \E t \in ServiceTypes : Construct(1, 1, t)
    \/ \E p \in Prompts, o \in AllOptions : GenerateInvoke(1, 1, p, o)

SpecResolve == InitResolve /\ [][NextResolve]_vars

(* SpecRoundTrip: one client, one call, and every response or failure of the
   transport *)

InitRoundTrip == InitWith(CoreConfigs, CoreEnvs)

NextRoundTrip ==
    \/ \E t \in ServiceTypes : Construct(1, 1, t)
    \/ \E t \in ServiceTypes : SetServiceType(1, t)
    \/ \E p \in Prompts, o \in CoreOptions : GenerateInvoke(1, 1, p, o)
    \/ \E o \in AllOutcomes : GenerateSettle(1, o)

SpecRoundTrip == InitRoundTrip /\ [][NextRoundTrip]_vars

(* SpecDefault: the configurations getDefaultConfig() builds from the
   environment, and the clients constructed from them *)

InitDefault ==
    /\ heap = [i \in 1..MaxObjs |-> Free]
    /\ literals = {}
    /\ returned = [c \in Clients |-> {}]
    /\ clients = [c \in Clients |-> NoClient]
    /\ env \in DefaultEnvs
    /\ calls = [k \in CallIds |-> IdleCall]
    /\ writes = 0
    /\ InitAgents

NextDefault ==
    \/ GetDefaultConfig
    \/ \E o \in 1..MaxObjs, t \in CoreServiceTypes : Construct(1, o, t)
    \/ \E p \in Prompts, o \in CoreOptions : GenerateInvoke(1, 1, p, o)

SpecDefault == InitDefault /\ [][NextDefault]_vars

(* SpecAgent: one agent, its configuration, the values getConfig() hands
   out, and process() calls *)

InitAgent == InitWith(CoreConfigs, {Env(None, None, None)})

RequestOptions ==
    { NoOptions,
      Options(None, None, Some(10), Some(TRUE), Some("mirror/anthropic/claude-3-haiku")) }

Inputs == {None, Some(""), Some("Generate 5 realistic user profiles")}

NextAgent ==
    \/ \E t \in {"code-generator", "mock-data"}, f \in AgentFormats, m \in AgentModels :
          AgentConstruct(1, 1, t, f, m)
    \/ \E u \in AgentUpdates : AgentUpdateConfig(1, u)
    \/ AgentGetConfig(1)
    \/ \E o \in 1..MaxObjs, f \in Fields : MutateExported(o, f)
    \/ \E k \in CallIds, i \in Inputs, o \in RequestOptions : AgentProcess(k, 1, i, o)
    \/ \E k \in CallIds, o \in AgentOutcomes : AgentProcessSettle(k, o)

SpecAgent == InitAgent /\ [][NextAgent]_vars

(* SpecManager: agents of specific classes registered with a manager, and
   the manager's createAgent, exportConfig and importConfig *)

NextManager ==
    \/ \E a \in Clients, t \in {"mock-data", "translator"} :
          AgentConstruct(a, 1, t, "parseJson", None)
    \/ \E n \in AgentNames, a \in Clients : ManagerRegisterAgent(n, a)
    \/ \E n \in AgentNames : ManagerRemoveAgent(n)
    \/ \E t \in AgentTypes : ManagerCreateAgent(t)
    \/ \E n \in AgentNames :
          ManagerUpdateAgentConfig(n, AgentUpdate(Some(Some("openai/gpt-4.1-nano")), None))
    \/ ManagerExportConfig
    \/ ManagerImportConfig

SpecManager == InitAgent /\ [][NextManager]_vars

(* SpecModels: one fetchAvailableModels() call and the responses of the
   models endpoint *)

NextModels ==
    \/ \E j \in BOOLEAN : FetchModelsInvoke(j)
    \/ \E o \in ListingOutcomes : FetchModelsSettle(o)

SpecModels == InitAgent /\ [][NextModels]_vars

-----------------------------------------------------------------------------
(* Properties *)

Settled(k) == calls[k].st \in {"resolved", "rejected"}

\* the prefix of every error generate() throws, for the category bound to the
\* client when the error was handled
ErrorPrefix(k) == "Failed to generate with " \o calls[k].handledAs \o ": "

\* C1: the wire request of a generate call carries response_format, of type
\* json_object, if and only if the caller's forceJson is true and the model in
\* that same wire request matches the JSON-capable pattern table; with forceJson
\* false or unset, or a model that does not match, the field is absent.
C1_ResponseFormatIff ==
    \A k \in CallIds :
        calls[k].st = "inflight" =>
            LET body == RequestOnWire(k).body
            IN  /\ body.response_format \in {None, Some("json_object")}
                /\ (body.response_format # None)
                     <=> (/\ calls[k].options.forceJson = Some(TRUE)
                          /\ supportsJsonMode(Str(body.model)))

\* forceJson is true, the model matches, and the field is on the wire
C1_Witness ==
    \E k \in CallIds :
        /\ calls[k].st = "inflight"
        /\ calls[k].options.forceJson = Some(TRUE)
        /\ calls[k].fetch.body.model = Some("openai/gpt-4.1-nano")
        /\ calls[k].fetch.body.response_format = Some("json_object")

\* C2: the request of a generate call in flight carries the API key, the URL and
\* the model of the configuration the client held when generate was called,
\* whatever updateConfig calls have been made since.
C2_InFlightRequestKeepsSnapshot ==
    \A k \in CallIds :
        calls[k].st = "inflight" =>
            LET snap == calls[k].snap
                wire == RequestOnWire(k)
            IN  /\ wire.authorization = "Bearer " \o Str(snap.config.apiKey)
                /\ wire.url = Str(snap.config.baseURL) \o "/chat/completions"
                /\ wire.body.model =
                        IF TruthyStr(calls[k].options.model)
                        THEN calls[k].options.model
                        ELSE getModelForService(snap.config, snap.serviceType, env)

\* a call is in flight and updateConfig has since changed the API key
C2_Witness ==
    \E k \in CallIds :
        /\ calls[k].st = "inflight"
        /\ calls[k].snap.config.apiKey = Some("sk-old")
        /\ Held(calls[k].client).apiKey = Some("sk-new")

\* C3 (as claimed): a generate call is unaffected by a setServiceType made while
\* it is in flight: its X-Title header and, when it fails, the category its error
\* message names are those of the category bound when generate was called.
C3_OutcomeNamesCategoryAtInvocation ==
    \A k \in CallIds :
        /\ calls[k].posts = 1 =>
              calls[k].fetch.title = "OpenRouter Agents " \o calls[k].snap.serviceType
        /\ calls[k].st = "rejected" =>
              StartsWith(calls[k].error,
                         "Failed to generate with " \o calls[k].snap.serviceType \o ": ")

\* C4: writing to a field of an object that c.getConfig() returned changes
\* neither the configuration c holds (what a later getConfig copies) nor the
\* request a later generate assembles.
C4_GetConfigReturnsCopy ==
    [][\A c \in Clients : \A o \in returned[c] :
          (clients[c].constructed /\ heap'[o] # heap[o]) =>
              /\ clients'[c] = clients[c]
              /\ heap'[clients'[c].config] = heap[clients[c].config]
              /\ \A p \in Prompts, opts \in CoreOptions :
                    AssembleRequest(heap'[clients'[c].config], clients'[c].serviceType,
                                    env', p, opts)
                    = AssembleRequest(heap[clients[c].config], clients[c].serviceType,
                                      env, p, opts)]_vars

\* an object getConfig returned has been written to, and the client's
\* configuration does not have the value written
C4_Witness ==
    \E c \in Clients : \E o \in returned[c] : \E f \in Fields :
        /\ clients[c].constructed
        /\ heap[o][f] = MutatedValue(f)
        /\ Held(c)[f] # MutatedValue(f)

\* C5 (as claimed): a client's configuration is owned by that client alone: no
\* two clients hold the same configuration object, and a step that is no
\* operation of client c (the caller writing to the object it passed to the
\* constructor) leaves the configuration c holds as it was.
C5_ConfigOwnedByOneClient ==
    [][/\ \A c, d \in Clients :
            (c # d /\ clients'[c].constructed /\ clients'[d].constructed)
                => clients'[c].config # clients'[d].config
       /\ \A c \in Clients :
            (clients[c].constructed /\ clients'[c] = clients[c])
                => heap'[clients[c].config] = heap[clients[c].config]]_vars

\* C6 (as claimed): a generate call that has settled has called fetch exactly
\* once, with method POST, {baseURL}/chat/completions and Bearer {apiKey}.
C6_ExactlyOnePost ==
    \A k \in CallIds :
        Settled(k) =>
            /\ calls[k].posts = 1
            /\ calls[k].fetch.method = "POST"
            /\ calls[k].fetch.url = Str(calls[k].snap.config.baseURL) \o "/chat/completions"
            /\ calls[k].fetch.authorization = "Bearer " \o Str(calls[k].snap.config.apiKey)

\* C7: on a status that is not 2xx with a body that parses as JSON, generate
\* rejects, with a message that starts with the prefix naming the client's
\* category and contains the status code, the status text and the parsed body
\* serialized; a 429 with {"error":{"message":"rate limited"}} gives a message
\* that contains "429" and "rate limited".
C7_NotOkJsonBodyRejects ==
    \A k \in CallIds :
        LET o == calls[k].outcome
        IN  (o.kind = "response" /\ ~ResponseOk(o.status) /\ JSONparse(o.body).ok) =>
                /\ calls[k].st = "rejected"
                /\ calls[k].text = ""
                /\ calls[k].handledAs \in ServiceTypes
                /\ StartsWith(calls[k].error, ErrorPrefix(k))
                /\ Includes(calls[k].error, ToString(o.status))
                /\ Includes(calls[k].error, " " \o o.statusText \o " ")
                /\ Includes(calls[k].error, JSONstringify(JSONparse(o.body).value))
                /\ (o.status = 429 /\ JSONparse(o.body).value = RateLimited) =>
                        /\ Includes(calls[k].error, "429")
                        /\ Includes(calls[k].error, "rate limited")

\* a 429 whose body is the rate-limit error, sent with other spacing than
\* JSON.stringify's, has been handled
C7_Witness ==
    \E k \in CallIds :
        /\ calls[k].outcome.kind = "response"
        /\ calls[k].outcome.status = 429
        /\ calls[k].outcome.body = "{ \"error\": { \"message\": \"rate limited\" } }"
        /\ calls[k].st = "rejected"

\* C8: on a status that is not 2xx with a body that does not parse as JSON,
\* generate rejects with the same error: the prefix naming the category, the
\* status code, the status text, and {} in place of the body; the parser's
\* message is not in it.
C8_NotOkUnparsableBodyRejects ==
    \A k \in CallIds :
        LET o == calls[k].outcome
        IN  (o.kind = "response" /\ ~ResponseOk(o.status) /\ ~JSONparse(o.body).ok) =>
                /\ calls[k].st = "rejected"
                /\ calls[k].error = ErrorPrefix(k) \o "OpenRouter API error: "
                                    \o ToString(o.status) \o " " \o o.statusText \o " - {}"
                /\ ~Includes(calls[k].error, JSONparse(o.body).message)

\* a 502 with an HTML body has been handled
C8_Witness ==
    \E k \in CallIds :
        /\ calls[k].outcome.kind = "response"
        /\ calls[k].outcome.status = 502
        /\ calls[k].outcome.body = "<html>Bad Gateway</html>"
        /\ calls[k].st = "rejected"

\* C9: when fetch rejects, or a 2xx body is not valid JSON, generate rejects with
\* the prefix naming the client's category followed by the message of the cause;
\* and every call that fails, whatever the origin, rejects with that prefix and
\* returns no text.
C9_FailuresAreWrapped ==
    \A k \in CallIds :
        LET o == calls[k].outcome
        IN  /\ o.kind = "reject" =>
                /\ calls[k].st = "rejected"
                /\ calls[k].error = ErrorPrefix(k) \o o.cause
            /\ (o.kind = "response" /\ ResponseOk(o.status) /\ ~JSONparse(o.body).ok) =>
                /\ calls[k].st = "rejected"
                /\ calls[k].error = ErrorPrefix(k) \o JSONparse(o.body).message
            /\ calls[k].st = "rejected" =>
                /\ calls[k].handledAs \in ServiceTypes
                /\ StartsWith(calls[k].error, ErrorPrefix(k))
                /\ Len(calls[k].error) > Len(ErrorPrefix(k))
                /\ calls[k].text = ""

\* a 200 whose body is not JSON has been handled
C9_Witness ==
    \E k \in CallIds :
        /\ calls[k].outcome.kind = "response"
        /\ calls[k].outcome.status = 200
        /\ calls[k].outcome.body = "<html>Bad Gateway</html>"
        /\ calls[k].st = "rejected"

\* C10 (as claimed): on a 2xx response whose body is a JSON object, generate
\* resolves, to the content of the first choice's message or to the empty
\* string when there is no first choice; it does not fail.
C10_SuccessNeverFails ==
    \A k \in CallIds :
        LET o == calls[k].outcome
        IN  (/\ o.kind = "response" /\ ResponseOk(o.status)
             /\ JSONparse(o.body).ok /\ JSONparse(o.body).value.t = "object") =>
                calls[k].st = "resolved"

InFlight(k) == calls[k].st = "inflight"

\* the request body of call k, and the category and configuration of its
\* client when generate was called
Body(k) == calls[k].fetch.body
Category(k) == calls[k].snap.serviceType

\* an environment variable counts as set when its value is not empty
IsSet(name) == env[name] # None /\ env[name] # Some("")

\* the variable OPENROUTER_<CATEGORY>_MODEL of a category, written out
CategoryVariable(category) ==
    CASE category = "mockGenerator" -> "OPENROUTER_MOCK_GENERATOR_MODEL"
      [] category = "codeGenerator" -> "OPENROUTER_CODE_GENERATOR_MODEL"
      [] category = "translation" -> "OPENROUTER_TRANSLATION_MODEL"
      [] category = "documentation" -> "OPENROUTER_DOCUMENTATION_MODEL"
      [] category = "custom" -> "OPENROUTER_DEFAULT_MODEL"

\* C11 (as claimed): an option the caller sets reaches the wire request with
\* exactly the caller's value, the empty string and 0 included; an option left
\* unset is filled from the bound category and the configuration.
C11_OptionsReachTheWire ==
    \A k \in CallIds :
        InFlight(k) =>
            LET o == calls[k].options
                snap == calls[k].snap
            IN  /\ o.systemPrompt # None => Body(k).system = o.systemPrompt[1]
                /\ o.model # None => Body(k).model = o.model
                /\ o.temperature # None => Body(k).temperature = o.temperature[1]
                /\ o.maxTokens # None => Body(k).max_tokens = o.maxTokens[1]
                /\ o.systemPrompt = None =>
                      Body(k).system = getSystemPromptForService(Category(k), o.forceJson)
                /\ o.model = None =>
                      Body(k).model = getModelForService(snap.config, Category(k), env)
                /\ o.temperature = None =>
                      Body(k).temperature = getTemperatureForService(Category(k))
                /\ o.maxTokens = None =>
                      Body(k).max_tokens
                        = getMaxTokensForService(snap.config, Category(k), env).value

\* C12: without an explicit model, the model of the wire request is the value of
\* the category's variable OPENROUTER_<CATEGORY>_MODEL when it is set (not
\* empty), else the value of OPENROUTER_DEFAULT_MODEL when it is set, else the
\* client's configured model.
C12_ModelPriorityChain ==
    \A k \in CallIds :
        (InFlight(k) /\ calls[k].options.model = None) =>
            Body(k).model =
                IF IsSet(CategoryVariable(Category(k)))
                THEN env[CategoryVariable(Category(k))]
                ELSE IF IsSet("OPENROUTER_DEFAULT_MODEL")
                     THEN env["OPENROUTER_DEFAULT_MODEL"]
                     ELSE calls[k].snap.config.model

\* the category's variable is set to the empty string, the global one is set,
\* and the global one is what is sent
C12_Witness ==
    \E k \in CallIds :
        /\ InFlight(k)
        /\ calls[k].options.model = None
        /\ Category(k) = "translation"
        /\ env["OPENROUTER_TRANSLATION_MODEL"] = Some("")
        /\ env["OPENROUTER_MOCK_GENERATOR_MODEL"] = Some("x-ai/claude-3-clone")
        /\ Body(k).model = Some("gpt-4")

\* C13 (as claimed): with an environment override set and an explicit model in
\* the options, the model of the wire request is the override's value.
C13_EnvironmentOverridesExplicitModel ==
    \A k \in CallIds :
        (/\ InFlight(k)
         /\ TruthyStr(calls[k].options.model)
         /\ (IsSet(CategoryVariable(Category(k))) \/ IsSet("OPENROUTER_DEFAULT_MODEL"))) =>
            Body(k).model =
                IF IsSet(CategoryVariable(Category(k)))
                THEN env[CategoryVariable(Category(k))]
                ELSE env["OPENROUTER_DEFAULT_MODEL"]

\* C13 (amended): an explicit model that is not empty is the model of the wire
\* request, whatever environment overrides are set.
C13_ExplicitModelWins ==
    \A k \in CallIds :
        (InFlight(k) /\ TruthyStr(calls[k].options.model)) =>
            Body(k).model = calls[k].options.model

\* an explicit model is sent while the category's override names another one
C13_Witness ==
    \E k \in CallIds :
        /\ InFlight(k)
        /\ Category(k) = "mockGenerator"
        /\ env["OPENROUTER_MOCK_GENERATOR_MODEL"] = Some("google/gemini-pro")
        /\ calls[k].options.model = Some("openai/gpt-4.1-nano")
        /\ Body(k).model = Some("openai/gpt-4.1-nano")

\* C14: with no temperature in the options, the temperature of the wire request
\* is the constant of the bound category (in tenths: 7, 3, 1, 4, and 5 for the
\* unspecified category), whatever the model, the environment, the configuration
\* and the other options are.
C14_TemperatureOfCategory ==
    \A k \in CallIds :
        (InFlight(k) /\ calls[k].options.temperature = None) =>
            Body(k).temperature =
                CASE Category(k) = "mockGenerator" -> 7
                  [] Category(k) = "codeGenerator" -> 3
                  [] Category(k) = "translation" -> 1
                  [] Category(k) = "documentation" -> 4
                  [] Category(k) = "custom" -> 5

\* a translation request with every other option set and an override in the
\* environment carries 0.1
C14_Witness ==
    \E k \in CallIds :
        /\ InFlight(k)
        /\ Category(k) = "translation"
        /\ calls[k].options
             = Options(Some("Be brief."), None, Some(10), Some(TRUE), Some("openai/gpt-4.1-nano"))
        /\ IsSet("OPENROUTER_DEFAULT_MODEL")
        /\ Body(k).temperature = 1

\* C15: when the model the resolver resolves contains "claude-3" and no maxTokens
\* is given, max_tokens is 8000 for mock-generation, 6000 for code-generation,
\* 3000 for translation, 8000 for documentation and 4000 for the unspecified
\* category.
C15_Claude3TokenBudget ==
    \A k \in CallIds :
        LET model == IF IsSet(CategoryVariable(Category(k)))
                     THEN env[CategoryVariable(Category(k))]
                     ELSE IF IsSet("OPENROUTER_DEFAULT_MODEL")
                          THEN env["OPENROUTER_DEFAULT_MODEL"]
                          ELSE calls[k].snap.config.model
        IN  (/\ InFlight(k)
             /\ calls[k].options.maxTokens = None
             /\ Includes(Str(model), "claude-3")) =>
                Body(k).max_tokens =
                    CASE Category(k) = "mockGenerator" -> 8000
                      [] Category(k) = "codeGenerator" -> 6000
                      [] Category(k) = "translation" -> 3000
                      [] Category(k) = "documentation" -> 8000
                      [] Category(k) = "custom" -> 4000

\* a translation request for the configured Claude 3.5 model carries 3000
C15_Witness ==
    \E k \in CallIds :
        /\ InFlight(k)
        /\ Category(k) = "translation"
        /\ calls[k].options.maxTokens = None
        /\ calls[k].options.model = None
        /\ Body(k).model = Some("anthropic/claude-3.5-sonnet")
        /\ Body(k).max_tokens = 3000

\* the identifiers of the model's inputs that match one of the five patterns
\* ^openai/, ^gpt-, ^nitro, ^anthropic/claude-3, ^google/gemini; the others are
\* "meta-llama/llama-3.1-8b-instruct:free", "mirror/anthropic/claude-3-haiku",
\* "x-ai/claude-3-clone" and "undefined"
JsonCapableIdentifiers ==
    { "openai/gpt-4.1-nano", "openai/gpt-3.5-turbo", "gpt-4", "nitro-llama-70b",
      "anthropic/claude-3.5-sonnet", "google/gemini-pro" }

\* C16: supportsJsonMode(model) is true exactly for the identifiers that match
\* one of the five anchored patterns, true for "openai/gpt-4.1-nano" and false
\* for "meta-llama/llama-3.1-8b-instruct:free", and the same for an identifier
\* whatever the category, the configuration and the environment: a request with
\* forceJson carries response_format exactly for those identifiers.
C16_JsonCapableByIdentifier ==
    /\ supportsJsonMode("openai/gpt-4.1-nano")
    /\ ~supportsJsonMode("meta-llama/llama-3.1-8b-instruct:free")
    /\ \A k \in CallIds :
          InFlight(k) =>
              /\ supportsJsonMode(Str(Body(k).model))
                    <=> Str(Body(k).model) \in JsonCapableIdentifiers
              /\ calls[k].options.forceJson = Some(TRUE) =>
                    ((Body(k).response_format # None)
                        <=> Str(Body(k).model) \in JsonCapableIdentifiers)

\* forceJson with a model that holds a pattern elsewhere than at its start:
\* no response_format
C16_Witness ==
    \E k \in CallIds :
        /\ InFlight(k)
        /\ calls[k].options.forceJson = Some(TRUE)
        /\ Body(k).model = Some("mirror/anthropic/claude-3-haiku")
        /\ Body(k).response_format = None

\* C17: with no systemPrompt in the options, the system message of the wire
\* request is the instruction string of the bound category; for mock-generation
\* the string sent with forceJson true differs from the one sent with forceJson
\* false or unset (it demands parseable JSON), and for every other category the
\* string is the same whatever forceJson is.
C17_SystemPromptOfCategory ==
    \A k \in CallIds :
        (InFlight(k) /\ calls[k].options.systemPrompt = None) =>
            LET forceJson == calls[k].options.forceJson
                sent == Body(k).system
            IN  /\ sent = getSystemPromptForService(Category(k), forceJson)
                /\ \A other \in ServiceTypes \ {Category(k)}, fj \in {None, Some(FALSE), Some(TRUE)} :
                      sent # getSystemPromptForService(other, fj)
                /\ Category(k) # "mockGenerator" =>
                      \A fj \in {None, Some(FALSE), Some(TRUE)} :
                          sent = getSystemPromptForService(Category(k), fj)
                /\ Category(k) = "mockGenerator" =>
                      /\ getSystemPromptForService("mockGenerator", None)
                            = getSystemPromptForService("mockGenerator", Some(FALSE))
                      /\ forceJson = Some(TRUE) =>
                            /\ sent # getSystemPromptForService("mockGenerator", Some(FALSE))
                            /\ Includes(sent, "The response must be parseable JSON.")
                            /\ Includes(sent, "Do not include any markdown formatting")
                      /\ forceJson # Some(TRUE) =>
                            /\ sent # getSystemPromptForService("mockGenerator", Some(TRUE))
                            /\ ~Includes(sent, "parseable JSON")

\* a mock-generation request with forceJson carries the parseable-JSON prompt
C17_Witness ==
    \E k \in CallIds :
        /\ InFlight(k)
        /\ Category(k) = "mockGenerator"
        /\ calls[k].options.systemPrompt = None
        /\ calls[k].options.forceJson = Some(TRUE)
        /\ Includes(Body(k).system, "The response must be parseable JSON.")

\* C19 (as claimed): every wire request carries a temperature within [0,1] (in
\* tenths, 0..10) and a max_tokens greater than 0.
C19_WireValuesInRange ==
    \A k \in CallIds :
        InFlight(k) =>
            /\ Body(k).temperature \in 0..10
            /\ Body(k).max_tokens \in Nat
            /\ Body(k).max_tokens > 0

\* C18 (as claimed): every configuration getDefaultConfig() returns has the API
\* key variable's value as apiKey (empty when unset), the base-URL variable's
\* value as baseURL when it is set and the built-in URL otherwise, and the
\* global default-model variable's value as model when it is set and the
\* fallback model otherwise.
C18_DefaultConfigFromEnvironment ==
    \A o \in literals :
        /\ heap[o].apiKey = IF IsSet("OPENROUTER_API_KEY")
                            THEN env["OPENROUTER_API_KEY"] ELSE Some("")
        /\ heap[o].baseURL = IF IsSet("OPENROUTER_BASE_URL")
                             THEN env["OPENROUTER_BASE_URL"] ELSE Some(BuiltinURL)
        /\ heap[o].model = IF IsSet("OPENROUTER_DEFAULT_MODEL")
                           THEN env["OPENROUTER_DEFAULT_MODEL"]
                           ELSE Some("anthropic/claude-3.5-sonnet")

\* C20: after any constructions and updateConfig calls, each field of the
\* configuration a client holds (what getConfig copies) is the value of the
\* latest call that supplied the field, or the constructor's value when no call
\* supplied it; an update gives the client a new object, and the object it
\* replaces is left as it was (or is collected, nothing referring to it).
C20_UpdateConfigMerges ==
    [][\A c \in Clients :
          clients'[c].constructed =>
              /\ \A f \in Fields :
                    heap'[clients'[c].config][f] =
                        IF clients'[c].supplied[f] # None
                        THEN clients'[c].supplied[f][1]
                        ELSE clients'[c].initial[f]
              /\ clients'[c].supplied # Partial(None, None, None) =>
                    clients'[c].config \notin literals'
              /\ (clients[c].constructed /\ clients'[c].config # clients[c].config) =>
                    /\ heap[clients'[c].config] = Free
                    /\ heap'[clients[c].config] \in {heap[clients[c].config], Free}
                    /\ clients[c].config \in literals' =>
                          heap'[clients[c].config] = heap[clients[c].config]]_vars

\* two updates, of apiKey and of model (to undefined), and baseURL as constructed
C20_Witness ==
    \E c \in Clients :
        /\ clients[c].constructed
        /\ clients[c].supplied = Partial(Some(Some("sk-new")), None, Some(None))
        /\ clients[c].initial.model = Some("anthropic/claude-3.5-sonnet")
        /\ Held(c) = Config(Some("sk-new"), Some(BuiltinURL), None)

\* the model the resolver resolves for call k: the category's variable, the
\* global variable, the configured model
ResolvedModel(k) ==
    IF IsSet(CategoryVariable(Category(k)))
    THEN env[CategoryVariable(Category(k))]
    ELSE IF IsSet("OPENROUTER_DEFAULT_MODEL")
         THEN env["OPENROUTER_DEFAULT_MODEL"]
         ELSE calls[k].snap.config.model

\* the documented budget of a model identifier for a category: the pair of the
\* first family named in the identifier, then the category's share of it
TokenBudget(model, category) ==
    LET pair == IF Includes(model, "claude-3") THEN <<8000, 4000>>
                ELSE IF Includes(model, "gpt-4") THEN <<6000, 3000>>
                ELSE IF Includes(model, "gpt-3.5") THEN <<3000, 2000>>
                ELSE IF Includes(model, "gemini") THEN <<7000, 3500>>
                ELSE <<4000, 2000>>
    IN  CASE category = "mockGenerator" -> pair[1]
          [] category = "documentation" -> pair[1]
          [] category = "codeGenerator" -> (pair[1] * 3) \div 4
          [] category = "translation" -> (pair[2] * 3) \div 4
          [] category = "custom" -> pair[2]

\* C23 (as claimed): with no maxTokens in the options, the max_tokens of a wire
\* request is the documented budget of the model identifier the same request
\* carries in its model field, also when that identifier is the caller's
\* explicit model.
C23_BudgetOfTheWireModel ==
    \A k \in CallIds :
        (InFlight(k) /\ calls[k].options.maxTokens = None) =>
            Body(k).max_tokens = TokenBudget(Str(Body(k).model), Category(k))

\* C24 (as claimed): whenever generate is called with no maxTokens, the budget
\* is resolved without failure: the call sends its request, and the max_tokens
\* it carries is the documented budget of the resolved model for the category,
\* a positive integer.
C24_BudgetIsAlwaysResolved ==
    \A k \in CallIds :
        (calls[k].st # "idle" /\ calls[k].options.maxTokens = None) =>
            /\ calls[k].posts = 1
            /\ Body(k).max_tokens = TokenBudget(Str(ResolvedModel(k)), Category(k))
            /\ Body(k).max_tokens \in Nat \ {0}

\* C25: a step of a generate call, its start as well as its settlement with
\* text or with a failure, leaves the configuration and the category of every
\* client as they were, the configuration objects and the environment included.
C25_GenerateLeavesFieldsUnchanged ==
    [][(calls' # calls) =>
          /\ clients' = clients
          /\ heap' = heap
          /\ env' = env]_vars

\* a call that sent another model than the configured one has failed, and the
\* client's fields are the ones the call started with
C25_Witness ==
    \E k \in CallIds :
        /\ calls[k].st = "rejected"
        /\ calls[k].posts = 1
        /\ calls[k].fetch.body.model # calls[k].snap.config.model
        /\ Held(calls[k].client) = calls[k].snap.config
        /\ clients[calls[k].client].serviceType = calls[k].snap.serviceType

\* the configuration a client was given: per field, the value of the latest
\* updateConfig call that supplied it, or the constructor's value
Configured(c) ==
    [f \in Fields |-> IF clients[c].supplied[f] # None
                      THEN clients[c].supplied[f][1]
                      ELSE clients[c].initial[f]]

\* C22 (as claimed): in every process() call that has started, an input
\* validateInput rejected means the call has returned success=false with the
\* error 'Invalid input provided' and no request was sent; a request is sent
\* only for an input that passed validation; formatOutput is called only once
\* generate() has returned text.
C22_ValidationBeforeRequest ==
    \A k \in CallIds :
        procs[k].st # "idle" =>
            /\ ~procs[k].validated =>
                  /\ procs[k].st = "returned"
                  /\ procs[k].response = Failed("Invalid input provided")
                  /\ calls[k].posts = 0
                  /\ calls[k].st = "idle"
            /\ calls[k].posts = 1 => procs[k].validated
            /\ procs[k].formatted => calls[k].st = "resolved"

\* C27 (as claimed): no process() call rejects; one that has returned has
\* success=true only with data, a validated input, text from generate() and a
\* formatOutput that returned, and has success=false with a non-empty error
\* when generate() failed or formatOutput threw.
C27_ProcessNeverRejects ==
    \A k \in CallIds :
        /\ procs[k].st # "rejected"
        /\ procs[k].st = "returned" =>
              LET r == procs[k].response
                  format == agents[procs[k].agent].format
              IN  /\ r.success =>
                        /\ r.data # None
                        /\ procs[k].validated
                        /\ calls[k].st = "resolved"
                        /\ procs[k].formatted
                        /\ ~formatOutput(format, calls[k].text).threw
                  /\ (\/ calls[k].st = "rejected"
                      \/ procs[k].formatted /\ formatOutput(format, calls[k].text).threw) =>
                        /\ ~r.success
                        /\ r.error # None
                        /\ r.error # Some("")

\* C28 (as claimed): whatever the calling program has written to the values
\* getConfig() returned, a process() call sends its request to the base URL,
\* with the API key and, when neither the request nor the agent names a model,
\* with the model the agent's client was configured with by its constructor and
\* its updateConfig calls.
C28_ExportedConfigIsDetached ==
    [][\A k \in CallIds :
          (procs[k].st = "idle" /\ procs'[k].st # "idle" /\ calls'[k].posts = 1) =>
              LET sent == calls'[k].fetch
                  configured == Configured(calls'[k].client)
              IN  /\ sent.url = Str(configured.baseURL) \o "/chat/completions"
                  /\ sent.authorization = "Bearer " \o Str(configured.apiKey)
                  /\ calls'[k].options.model = None =>
                        sent.body.model = configured.model]_vars

\* C29 (as claimed): the openRouter configuration of every constructed agent,
\* which getConfig() reports, is an object whose apiKey, baseURL and model are
\* those of the configuration the agent's client holds.
C29_ReportedConfigIsTheClients ==
    \A a \in Clients :
        agents[a].constructed =>
            /\ agents[a].openRouter # 0
            /\ \A f \in Fields : heap[agents[a].openRouter][f] = Held(a)[f]

\* C21 (as claimed): a createAgent(config) call with one of the five agent
\* types has returned an agent: one that is constructed, has the type of the
\* configuration, and has a client that is ready to send.
C21_CreateAgentReturnsAgent ==
    (registry.created.st # "none" /\ registry.created.type \in AgentTypes) =>
        /\ registry.created.st = "returned"
        /\ agents[registry.created.agent].constructed
        /\ agents[registry.created.agent].type = registry.created.type
        /\ clients[registry.created.agent].constructed

\* C30 (as claimed): an importConfig() call of the value exportConfig()
\* returned leaves the manager with an agent for every name of the exported
\* value, and for no other name.
C30_ExportImportRoundTrip ==
    [][(~registry.imported /\ registry'.imported) =>
          {n \in AgentNames : registry'.agents[n] # 0}
              = {n \in AgentNames : registry.configs[1][n] # None}]_vars

\* the ids of a list of models, in order
IdsOf(models) ==
    [i \in 1..Len(models.items) |->
        IF Prop(models.items[i], "id") = None THEN "undefined"
        ELSE Prop(models.items[i], "id")[1].s]

\* C26: a fetchAvailableModels() call does not reject: it is idle, awaiting or
\* returned.  After a network failure, a status outside 200..299 or a body that
\* does not parse, it has returned the static list (all four models, or with
\* jsonOnly the three that pass the filter); and with jsonOnly every model of
\* the list it returned, live or static, has an id matching one of the five
\* patterns or declares json_object among its supported generation methods.
C26_ListingFallsBack ==
    /\ listing.st \in {"idle", "awaiting", "returned"}
    /\ listing.st = "returned" =>
          /\ (\/ listing.outcome.kind = "reject"
              \/ listing.outcome.status \notin 200..299
              \/ ~JSONparse(listing.outcome.body).ok) =>
                  /\ listing.fallback
                  /\ listing.models.t = "array"
                  /\ IdsOf(listing.models) =
                        IF listing.jsonOnly
                        THEN << "anthropic/claude-3.5-sonnet", "openai/gpt-4.1-nano",
                                "anthropic/claude-3-haiku" >>
                        ELSE << "anthropic/claude-3.5-sonnet", "openai/gpt-4.1-nano",
                                "anthropic/claude-3-haiku",
                                "meta-llama/llama-3.1-8b-instruct:free" >>
          /\ listing.jsonOnly =>
                  /\ listing.models.t = "array"
                  /\ \A i \in 1..Len(listing.models.items) :
                        \/ IdsOf(listing.models)[i]
                              \in JsonCapableIdentifiers \cup {"anthropic/claude-3-haiku"}
                        \/ Prop(listing.models.items[i], "supported_generation_methods")
                              = Some(JArr(<< JStr("json_object") >>))

\* a 502 answered a jsonOnly call, which returned the three JSON-capable
\* models of the static list
C26_Witness ==
    /\ listing.st = "returned"
    /\ listing.jsonOnly
    /\ listing.outcome.status = 502
    /\ listing.fallback
    /\ Len(listing.models.items) = 3

=============================================================================
